---- MODULE Spec2Model ----
(***************************************************************************)
(* Model of the indexed identicon generator (identicons.go): the bit       *)
(* accessors, the colour selectors, the 5x5 stencil, the three indexed     *)
(* renderers and the Face header writer.                                   *)
(*                                                                         *)
(* A digest is a sequence of bytes (1-indexed here, 0-indexed in Go).      *)
(* A call result is a record [panic, val]: panic = TRUE stands for a Go    *)
(* run-time panic (index out of range), in which case val is "panic".      *)
(***************************************************************************)
EXTENDS Integers, Sequences, FiniteSets, TLC

VARIABLES source, size, ret, b64, file, pc, pos, err

vars == <<source, size, ret, b64, file, pc, pos, err>>

genVars == <<source, size, ret>>
faceVars == <<b64, file, pc, pos, err>>

----------------------------------------------------------------------------
(* Bounds of the model *)

\* getBit / getByte are called with n in -MaxNeg .. MaxIndex
MaxIndex == 260
MaxNeg == 5
\* base64 streams handed to writeFaceFile have 0 .. MaxB64Len characters
MaxB64Len == 224

----------------------------------------------------------------------------
(* Go integer arithmetic: / and % truncate toward zero *)

Abs(a) == IF a < 0 THEN -a ELSE a

GoQuo(a, b) ==
  IF (a < 0) = (b < 0) THEN Abs(a) \div Abs(b) ELSE -(Abs(a) \div Abs(b))

GoRem(a, b) == a - b * GoQuo(a, b)

Pow2(k) == IF k = 0 THEN 1 ELSE IF k = 1 THEN 2 ELSE IF k = 2 THEN 4
           ELSE IF k = 3 THEN 8 ELSE IF k = 4 THEN 16 ELSE IF k = 5 THEN 32
           ELSE IF k = 6 THEN 64 ELSE 128

Ok(v) == [panic |-> FALSE, val |-> v]
Panic == [panic |-> TRUE, val |-> "panic"]

----------------------------------------------------------------------------
(* Bit accessors *)

getBit(src, n) ==
  IF Len(src) = 0 \/ n < 0 THEN FALSE
  ELSE LET byteIndex == GoQuo(n, 8)
           bitIndex == GoRem(n, 8)
       IN IF byteIndex >= Len(src) THEN FALSE
          ELSE (src[byteIndex + 1] \div Pow2(bitIndex)) % 2 = 1

\* source[n % len(source)]: a negative remainder indexes out of range
getByte(src, n) ==
  IF Len(src) = 0 THEN Ok(0)
  ELSE LET ix == GoRem(n, Len(src))
       IN IF ix < 0 \/ ix >= Len(src) THEN Panic ELSE Ok(src[ix + 1])

----------------------------------------------------------------------------
(* Colour selectors *)

\* the accumulation loops: OR of (1 << i) for each set bit base+i, i < width
BitField(src, base, width) ==
  LET RECURSIVE Acc(_)
      Acc(i) == IF i = width THEN 0
                ELSE (IF getBit(src, base + i) THEN Pow2(i) ELSE 0) + Acc(i + 1)
  IN Acc(0)

\* getColorIndices with a fault: the length check is off by one
getColorIndices_Threshold31(src) ==
  IF Len(src) < 31 THEN [primary |-> 0, secondary |-> 1, bg |-> 2]
  ELSE [primary   |-> (BitField(src, 248, 4) % 256) % 16,
        secondary |-> (BitField(src, 244, 4) % 256) % 16,
        bg        |-> (BitField(src, 252, 2) % 3) % 256]

\* getColorIndices with a fault: the background selector reads three bits
getColorIndices_ThreeBits(src) ==
  IF Len(src) < 32 THEN [primary |-> 0, secondary |-> 1, bg |-> 2]
  ELSE [primary   |-> (BitField(src, 248, 4) % 256) % 16,
        secondary |-> (BitField(src, 244, 4) % 256) % 16,
        bg        |-> (BitField(src, 252, 3) % 3) % 256]

getColorIndices(src) ==
  IF Len(src) < 32 THEN [primary |-> 0, secondary |-> 1, bg |-> 2]
  ELSE [primary   |-> (BitField(src, 248, 4) % 256) % 16,
        secondary |-> (BitField(src, 244, 4) % 256) % 16,
        bg        |-> (BitField(src, 252, 2) % 3) % 256]

----------------------------------------------------------------------------
(* Pattern generator: two flat 25-cell grids, cell (row, col) at row*5+col *)

spriteSize == 5

\* PatternLayer with a fault: the mirrored column is computed as 3 - col
PatternLayer_Mirror3(src, first) ==
  LET RECURSIVE Scan(_, _)
      Scan(k, grid) ==
        IF k = 15 THEN grid
        ELSE LET row == k \div 3
                 col == k % 3
                 paint == getBit(src, first + k)
                 ix == row * 5 + col
                 mirrorIx == row * 5 + (3 - col)
             IN Scan(k + 1, [[grid EXCEPT ![ix] = paint]
                                    EXCEPT ![mirrorIx] = paint])
  IN Scan(0, [i \in 0..24 |-> FALSE])

\* one of the two double loops: bits first .. first+14 in row-major order
\* over columns 0..2, each written to its cell and to the mirrored cell
PatternLayer(src, first) ==
  LET RECURSIVE Scan(_, _)
      Scan(k, grid) ==
        IF k = 15 THEN grid
        ELSE LET row == k \div 3
                 col == k % 3
                 paint == getBit(src, first + k)
                 ix == row * 5 + col
                 mirrorIx == row * 5 + (4 - col)
             IN Scan(k + 1, [[grid EXCEPT ![ix] = paint]
                                    EXCEPT ![mirrorIx] = paint])
  IN Scan(0, [i \in 0..24 |-> FALSE])

\* generatePixelPattern with a fault: the secondary scan starts at bit 244
generatePixelPattern_Selector(src) ==
  [primary |-> PatternLayer(src, 0), secondary |-> PatternLayer(src, 244)]

generatePixelPattern(src) ==
  [primary |-> PatternLayer(src, 0), secondary |-> PatternLayer(src, 15)]

----------------------------------------------------------------------------
(* Palette: colours are <<r, g, b, a>> *)

primaryPalette ==
  << <<0, 191, 147, 255>>,  <<45, 204, 112, 255>>, <<66, 228, 83, 255>>,
     <<241, 196, 15, 255>>, <<230, 127, 34, 255>>, <<255, 148, 78, 255>>,
     <<232, 76, 61, 255>>,  <<53, 152, 219, 255>>, <<154, 89, 181, 255>>,
     <<239, 62, 150, 255>>, <<223, 33, 185, 255>>, <<125, 194, 210, 255>>,
     <<22, 160, 134, 255>>, <<39, 174, 97, 255>>,  <<36, 195, 51, 255>>,
     <<28, 171, 187, 255>> >>

secondaryPalette ==
  << <<52, 73, 94, 255>>,   <<149, 165, 165, 255>>, <<210, 84, 0, 255>>,
     <<193, 57, 43, 255>>,  <<41, 127, 184, 255>>,  <<141, 68, 173, 255>>,
     <<190, 18, 126, 255>>, <<229, 35, 131, 255>>,  <<39, 174, 97, 255>>,
     <<36, 195, 51, 255>>,  <<217, 217, 33, 255>>,  <<243, 156, 17, 255>>,
     <<255, 85, 0, 255>>,   <<28, 171, 187, 255>>,  <<35, 35, 35, 255>>,
     <<126, 140, 141, 255>> >>

lightBackgrounds ==
  << <<255, 255, 255, 255>>, <<243, 245, 247, 255>>, <<236, 240, 241, 255>>,
     <<0, 0, 0, 0>> >>

darkBackgrounds ==
  << <<30, 30, 30, 255>>, <<45, 62, 80, 255>>, <<57, 57, 57, 255>>,
     <<0, 0, 0, 0>> >>

\* createPalette with a fault: slot 0 ignores a transparent request (bgIdx 3)
createPalette_OpaqueSlot0(primaryIdx, secondaryIdx, bgIdx, darkMode) ==
  [i \in 0..3 |->
     IF i = 0 THEN (IF darkMode THEN darkBackgrounds[(bgIdx % 3) + 1]
                                ELSE lightBackgrounds[(bgIdx % 3) + 1])
     ELSE IF i = 1 THEN primaryPalette[primaryIdx + 1]
     ELSE IF i = 2 THEN secondaryPalette[secondaryIdx + 1]
     ELSE <<0, 0, 0, 0>>]

\* the palette is indexed 0..3: background, primary, secondary, transparent
createPalette(primaryIdx, secondaryIdx, bgIdx, darkMode) ==
  [i \in 0..3 |->
     IF i = 0 THEN (IF darkMode THEN darkBackgrounds[bgIdx + 1]
                                ELSE lightBackgrounds[bgIdx + 1])
     ELSE IF i = 1 THEN primaryPalette[primaryIdx + 1]
     ELSE IF i = 2 THEN secondaryPalette[secondaryIdx + 1]
     ELSE <<0, 0, 0, 0>>]

----------------------------------------------------------------------------
(* Indexed images: Pix[y][x] is the palette index of pixel (x, y); Go keeps *)
(* the same bytes in one flat slice at offset y*Stride + x.                *)

NewPaletted(sz, palette) ==
  [Rect |-> sz, Palette |-> palette,
   Pix |-> LET row == [x \in 0..(sz - 1) |-> 0] IN [y \in 0..(sz - 1) |-> row]]

\* the background loop: SetColorIndex(j, i, index) for all i, j < sz
FillBackground(img, sz, index) ==
  [img EXCEPT !.Pix =
     [y \in DOMAIN img.Pix |->
        IF y < sz
        THEN [x \in DOMAIN img.Pix[y] |-> IF x < sz THEN index ELSE img.Pix[y][x]]
        ELSE img.Pix[y]]]

\* the innermost py/px loops: one pixelSize x pixelSize square at (x0, y0)
FillSquare(pix, x0, y0, pixelSize, sz, index) ==
  [py \in DOMAIN pix |->
     IF y0 <= py /\ py < y0 + pixelSize /\ py < sz
     THEN [px \in DOMAIN pix[py] |->
             IF x0 <= px /\ px < x0 + pixelSize /\ px < sz
             THEN index ELSE pix[py][px]]
     ELSE pix[py]]

\* one row/col double loop over the 25 cells of a grid, in row-major order
DrawLayer(img, pixels, index, pixelSize, margin, sz) ==
  LET RECURSIVE Cells(_, _)
      Cells(k, pix) ==
        IF k = spriteSize * spriteSize THEN pix
        ELSE LET row == k \div spriteSize
                 col == k % spriteSize
             IN IF pixels[row * spriteSize + col]
                THEN Cells(k + 1, FillSquare(pix, col * pixelSize + margin,
                                             row * pixelSize + margin,
                                             pixelSize, sz, index))
                ELSE Cells(k + 1, pix)
  IN [img EXCEPT !.Pix = Cells(0, img.Pix)]

\* GenerateIndexed with a fault: the primary layer is drawn first
GenerateIndexed_PrimaryFirst(src, sz, darkMode) ==
  LET pixelSize == GoQuo(sz, 8)
      margin == GoQuo(sz - pixelSize * spriteSize, 2)
      ci == getColorIndices(src)
      palette == createPalette(ci.primary, ci.secondary, ci.bg, darkMode)
      img0 == FillBackground(NewPaletted(sz, palette), sz, 0)
      pat == generatePixelPattern(src)
      img1 == DrawLayer(img0, pat.primary, 1, pixelSize, margin, sz)
  IN DrawLayer(img1, pat.secondary, 2, pixelSize, margin, sz)

GenerateIndexed(src, sz, darkMode) ==
  LET pixelSize == GoQuo(sz, 8)
      margin == GoQuo(sz - pixelSize * spriteSize, 2)
      ci == getColorIndices(src)
      palette == createPalette(ci.primary, ci.secondary, ci.bg, darkMode)
      img0 == FillBackground(NewPaletted(sz, palette), sz, 0)
      pat == generatePixelPattern(src)
      img1 == DrawLayer(img0, pat.secondary, 2, pixelSize, margin, sz)
  IN DrawLayer(img1, pat.primary, 1, pixelSize, margin, sz)

GenerateForExportOptimized(src, sz, transparent) ==
  LET pixelSize == GoQuo(sz, 8)
      margin == GoQuo(sz - pixelSize * spriteSize, 2)
      ci == getColorIndices(src)
      bgIdx == IF transparent THEN 3 ELSE ci.bg
      palette == createPalette(ci.primary, ci.secondary, bgIdx, FALSE)
      bgIndex == IF transparent THEN 3 ELSE 0
      img0 == FillBackground(NewPaletted(sz, palette), sz, bgIndex)
      pat == generatePixelPattern(src)
      img1 == DrawLayer(img0, pat.secondary, 2, pixelSize, margin, sz)
  IN DrawLayer(img1, pat.primary, 1, pixelSize, margin, sz)

faceSize == 48
facePixelSize == 6

\* Generate48x48ForFace with a fault: the margin is computed for an 8-cell grid
Generate48x48ForFace_Margin0(src, sz, transparent) ==
  LET margin == GoQuo(faceSize - facePixelSize * 8, 2)
      ci == getColorIndices(src)
      bgIdx == IF transparent THEN 3 ELSE ci.bg
      palette == createPalette(ci.primary, ci.secondary, bgIdx, FALSE)
      bgIndex == IF transparent THEN 3 ELSE 0
      img0 == FillBackground(NewPaletted(faceSize, palette), faceSize, bgIndex)
      pat == generatePixelPattern(src)
      img1 == DrawLayer(img0, pat.secondary, 2, facePixelSize, margin, faceSize)
  IN DrawLayer(img1, pat.primary, 1, facePixelSize, margin, faceSize)

\* the generator's size field (sz) is not read
Generate48x48ForFace(src, sz, transparent) ==
  LET margin == GoQuo(faceSize - facePixelSize * spriteSize, 2)
      ci == getColorIndices(src)
      bgIdx == IF transparent THEN 3 ELSE ci.bg
      palette == createPalette(ci.primary, ci.secondary, bgIdx, FALSE)
      bgIndex == IF transparent THEN 3 ELSE 0
      img0 == FillBackground(NewPaletted(faceSize, palette), faceSize, bgIndex)
      pat == generatePixelPattern(src)
      img1 == DrawLayer(img0, pat.secondary, 2, facePixelSize, margin, faceSize)
  IN DrawLayer(img1, pat.primary, 1, facePixelSize, margin, faceSize)

----------------------------------------------------------------------------
(* Inputs: digests, sizes *)

\* bytes 0..3 hold the pattern bits 0..29 (and bits 30, 31, which are unused)
Heads == { <<0, 0, 0, 0>>, <<255, 255, 255, 255>>, <<165, 90, 60, 195>>,
           <<255, 127, 0, 0>>, <<0, 128, 255, 63>>, <<0, 0, 0, 192>>,
           <<165, 90, 60, 3>> }

\* bytes 30 and 31 hold the selector bits 244..255 (and bits 240..243)
Tails == { <<0, 0>>, <<15, 0>>, <<240, 16>>, <<80, 32>>, <<95, 32>>, <<160, 48>>,
           <<255, 255>>, <<48, 101>>, <<16, 138>> }

Fills == {0, 255}

Digest32(head, fill, tail) == head \o [i \in 1..26 |-> fill] \o tail

Prefix(d, n) == SubSeq(d, 1, n)

ShortLens == {0, 1, 2, 3, 4, 16, 31}

Digests32 ==
  {Digest32(h, 0, <<80, 32>>) : h \in Heads}
    \cup {Digest32(<<165, 90, 60, 195>>, f, t) : f \in Fills, t \in Tails}

\* the same digests cut short, and one longer than 32 bytes
Digests ==
  Digests32
    \cup {Prefix(Digest32(h, 255, <<255, 255>>), n) : h \in Heads, n \in ShortLens}
    \cup {Digest32(<<165, 90, 60, 195>>, 0, <<160, 48>>) \o <<255, 255>>}

defaultSize == 256

Sizes == {0, 8, 13, 48}

Indices == (0 - MaxNeg) .. MaxIndex

NoCall == [op |-> "none", arg |-> "none", val |-> "none"]

----------------------------------------------------------------------------
(* The generator: constructors and method calls *)

NewOptimizedIdenticon(src) == [source |-> src, size |-> defaultSize]

NewOptimizedIdenticonWithSize(src, sz) == [source |-> src, size |-> sz]

\* The methods only read the generator, so one call per constructed generator
\* is observed: ret records the call and its result.
Fresh == ret.op = "none"

CallGetBit(n) ==
  /\ Fresh
  /\ ret' = [op |-> "getBit", arg |-> n, val |-> Ok(getBit(source, n))]
  /\ UNCHANGED <<source, size>>
  /\ UNCHANGED faceVars

CallGetByte(n) ==
  /\ Fresh
  /\ ret' = [op |-> "getByte", arg |-> n, val |-> getByte(source, n)]
  /\ UNCHANGED <<source, size>>
  /\ UNCHANGED faceVars

CallGetColorIndices ==
  /\ Fresh
  /\ ret' = [op |-> "getColorIndices", arg |-> "none",
             val |-> getColorIndices(source)]
  /\ UNCHANGED <<source, size>>
  /\ UNCHANGED faceVars

CallGeneratePixelPattern ==
  /\ Fresh
  /\ ret' = [op |-> "generatePixelPattern", arg |-> "none",
             val |-> generatePixelPattern(source)]
  /\ UNCHANGED <<source, size>>
  /\ UNCHANGED faceVars

CallGenerateIndexed(darkMode) ==
  /\ Fresh
  /\ ret' = [op |-> "GenerateIndexed", arg |-> darkMode,
             val |-> GenerateIndexed(source, size, darkMode)]
  /\ UNCHANGED <<source, size>>
  /\ UNCHANGED faceVars

CallGenerateForExportOptimized(transparent) ==
  /\ Fresh
  /\ ret' = [op |-> "GenerateForExportOptimized", arg |-> transparent,
             val |-> GenerateForExportOptimized(source, size, transparent)]
  /\ UNCHANGED <<source, size>>
  /\ UNCHANGED faceVars

CallGenerate48x48ForFace(transparent) ==
  /\ Fresh
  /\ ret' = [op |-> "Generate48x48ForFace", arg |-> transparent,
             val |-> Generate48x48ForFace(source, size, transparent)]
  /\ UNCHANGED <<source, size>>
  /\ UNCHANGED faceVars

FaceIdle ==
  /\ b64 = <<>>
  /\ file = <<>>
  /\ pc = "idle"
  /\ pos = 0
  /\ err = "nil"

\* NewOptimizedIdenticon is only ever handed a SHA-256 sum (32 bytes);
\* NewOptimizedIdenticonWithSize is explored with every digest and size.
Constructed(g) ==
  /\ source = g.source
  /\ size = g.size
  /\ ret = NoCall

Init ==
  /\ \/ \E src \in Digests32 : Constructed(NewOptimizedIdenticon(src))
     \/ \E src \in Digests, sz \in Sizes :
          Constructed(NewOptimizedIdenticonWithSize(src, sz))
  /\ FaceIdle

Next ==
  \/ \E n \in Indices : CallGetBit(n)
  \/ \E n \in Indices : CallGetByte(n)
  \/ CallGetColorIndices
  \/ CallGeneratePixelPattern
  \/ \E darkMode \in BOOLEAN : CallGenerateIndexed(darkMode)
  \/ \E transparent \in BOOLEAN : CallGenerateForExportOptimized(transparent)
  \/ \E transparent \in BOOLEAN : CallGenerate48x48ForFace(transparent)

Spec == Init /\ [][Next]_vars

----------------------------------------------------------------------------
(* The Face header writer.  Text is a sequence of one-character strings.   *)

B64Chars ==
  << "A", "B", "C", "D", "E", "F", "G", "H", "I", "J", "K", "L", "M", "N", "O",
     "P", "Q", "R", "S", "T", "U", "V", "W", "X", "Y", "Z", "a", "b", "c", "d",
     "e", "f", "g", "h", "i", "j", "k", "l", "m", "n", "o", "p", "q", "r", "s",
     "t", "u", "v", "w", "x", "y", "z", "0", "1", "2", "3", "4", "5", "6", "7",
     "8", "9", "+", "/" >>

Seeds == {0, 23}

\* a stream of n base64 characters; neighbouring characters differ
Stream(n, seed) == [i \in 1..n |-> B64Chars[((seed + 5 * (i - 1)) % 64) + 1]]

Streams == {Stream(n, seed) : n \in 0..MaxB64Len, seed \in Seeds}

FaceTag == <<"F", "a", "c", "e", ":">>

\* b64[lo:hi] of Go: characters lo .. hi-1, 0-indexed
Slice(s, lo, hi) == SubSeq(s, lo + 1, hi)

\* IsWrapped with a fault: the stream is wrapped as soon as it exceeds 70
IsWrapped_Over70(s) == Len(s) > 70

\* the branch lenB64 > 72
IsWrapped(s) == Len(s) > 72

\* FirstLine with a fault: the opening line of a wrapped stream is cut at 72
FirstLine_Cut72(s) ==
  IF Len(s) > 72 THEN <<" ">> \o SubSeq(s, 1, 72) ELSE <<" ">> \o s

\* the string of the second write: " " + b64[:70], or " " + b64
FirstLine(s) ==
  IF IsWrapped(s) THEN <<" ">> \o Slice(s, 0, 70) ELSE <<" ">> \o s

\* chunk := 75; if remaining < 75 { chunk = remaining }
ChunkLen(s, p) ==
  LET remaining == Len(s) - p
  IN IF remaining < 75 THEN remaining ELSE 75

\* the string of one loop iteration's write: "\n " + b64[pos:pos+chunk]
ContinuationLine(s, p) == <<"\n", " ">> \o Slice(s, p, p + ChunkLen(s, p))

\* file.WriteString(str): either every character is written and the call
\* returns nil, or the call returns an error after a short write of k < len
\* characters (os.File.Write reports the bytes written before the error).
\* On success control moves to next with position newPos; on an error the
\* function returns it at once.
WriteString(str, next, newPos) ==
  \/ /\ file' = file \o str
     /\ pc' = next
     /\ pos' = newPos
     /\ err' = "nil"
  \/ \E k \in 0..(Len(str) - 1) :
       /\ file' = file \o SubSeq(str, 1, k)
       /\ pc' = "returned"
       /\ pos' = pos
       /\ err' = "write"

\* os.Create: truncates or creates the file, or fails and leaves it alone
Create ==
  /\ pc = "create"
  /\ \/ /\ file' = <<>>
        /\ pc' = "tag"
        /\ err' = "nil"
     \/ /\ file' = file
        /\ pc' = "returned"
        /\ err' = "create"
  /\ UNCHANGED <<b64, pos>>
  /\ UNCHANGED genVars

WriteTag ==
  /\ pc = "tag"
  /\ WriteString(FaceTag, "first", pos)
  /\ UNCHANGED b64
  /\ UNCHANGED genVars

WriteFirstLine ==
  /\ pc = "first"
  /\ IF IsWrapped(b64)
     THEN WriteString(FirstLine(b64), "loop", 70)
     ELSE WriteString(FirstLine(b64), "newline", pos)
  /\ UNCHANGED b64
  /\ UNCHANGED genVars

\* one iteration of for pos < lenB64
WriteContinuation ==
  /\ pc = "loop"
  /\ pos < Len(b64)
  /\ WriteString(ContinuationLine(b64, pos), "loop", pos + ChunkLen(b64, pos))
  /\ UNCHANGED b64
  /\ UNCHANGED genVars

\* the loop condition fails
LoopExit ==
  /\ pc = "loop"
  /\ ~(pos < Len(b64))
  /\ pc' = "newline"
  /\ UNCHANGED <<b64, file, pos, err>>
  /\ UNCHANGED genVars

\* _, err = file.WriteString("\n"); return err
WriteTrailingNewline ==
  /\ pc = "newline"
  /\ \/ /\ file' = file \o <<"\n">>
        /\ err' = "nil"
     \/ /\ file' = file
        /\ err' = "write"
  /\ pc' = "returned"
  /\ UNCHANGED <<b64, pos>>
  /\ UNCHANGED genVars

\* writeFaceFile(filename, s) has just been called by the save handler, which
\* built its generator with NewOptimizedIdenticonWithSize(hash, 48)
InitFace ==
  /\ Constructed(NewOptimizedIdenticonWithSize(
                   Digest32(<<165, 90, 60, 195>>, 0, <<80, 32>>), 48))
  /\ \E s \in Streams : b64 = s
  /\ file = <<>>
  /\ pc = "create"
  /\ pos = 0
  /\ err = "nil"

NextFace ==
  \/ Create
  \/ WriteTag
  \/ WriteFirstLine
  \/ WriteContinuation
  \/ LoopExit
  \/ WriteTrailingNewline

SpecFace == InitFace /\ [][NextFace]_vars

\* writeFaceFile is straight-line code run by one goroutine: a call that can
\* take its next step takes it
SpecFaceFair == SpecFace /\ WF_vars(NextFace)

----------------------------------------------------------------------------
(* Vocabulary of the claims, stated on the digest itself *)

\* bit k of digest d: (d[k/8] >> (k%8)) & 1, and 0 past the end of d
DigestBit(d, k) ==
  /\ k >= 0
  /\ k \div 8 < Len(d)
  /\ (d[(k \div 8) + 1] \div Pow2(k % 8)) % 2 = 1

AgreeOnBits(d1, d2, lo, hi) ==
  \A k \in lo..hi : DigestBit(d1, k) = DigestBit(d2, k)

IsImageOp == ret.op \in {"GenerateIndexed", "GenerateForExportOptimized",
                         "Generate48x48ForFace"}

\* the canvas edge, cell edge and margin the returned image was drawn with
ImgSize == IF ret.op = "Generate48x48ForFace" THEN 48 ELSE size
ImgScale == ImgSize \div 8
ImgMargin == (ImgSize - ImgScale * 5) \div 2

\* the stencil row or column a pixel coordinate falls in, -1 outside the stencil
CellCoord(p) ==
  IF ImgScale = 0 \/ p < ImgMargin \/ p >= ImgMargin + 5 * ImgScale THEN 0 - 1
  ELSE (p - ImgMargin) \div ImgScale

\* the index the background loop wrote
FillIndex ==
  IF ret.op = "GenerateIndexed" THEN 0 ELSE IF ret.arg THEN 3 ELSE 0

----------------------------------------------------------------------------
(* C1 *)

ShortDefault(bg) == [primary |-> 0, secondary |-> 1, bg |-> bg]

\* C1 as stated: for every digest shorter than 32 bytes getColorIndices
\* returns primary=0, secondary=1, background=0.
C1_ShortDefaultBackground0 ==
  (ret.op = "getColorIndices" /\ Len(source) < 32) => ret.val = ShortDefault(0)

\* C1 amended: for every digest shorter than 32 bytes (the empty digest and a
\* 16-byte digest included) getColorIndices returns the fixed selectors
\* primary=0, secondary=1, background=2, whatever the digest's bytes are.
C1_ShortDefaultBackground2 ==
  (ret.op = "getColorIndices" /\ Len(source) < 32) => ret.val = ShortDefault(2)

C1_Witness ==
  /\ ret.op = "getColorIndices"
  /\ Len(source) = 16
  /\ \E i \in 1..16 : source[i] # 0
  /\ ret.val.bg = 2

----------------------------------------------------------------------------
(* C3 *)

\* C3: for every digest of any length both grids of generatePixelPattern are
\* mirror-symmetric (cell (r,c) equals cell (r,4-c)), primary cell (r,c) for
\* c in 0..2 is digest bit 3r+c and secondary cell (r,c) is digest bit 15+3r+c.
C3_PatternSymmetric ==
  ret.op = "generatePixelPattern" =>
    /\ \A r \in 0..4, c \in 0..4 :
         /\ ret.val.primary[r * 5 + c] = ret.val.primary[r * 5 + (4 - c)]
         /\ ret.val.secondary[r * 5 + c] = ret.val.secondary[r * 5 + (4 - c)]
    /\ \A r \in 0..4, c \in 0..2 :
         /\ ret.val.primary[r * 5 + c] = DigestBit(source, 3 * r + c)
         /\ ret.val.secondary[r * 5 + c] = DigestBit(source, 15 + 3 * r + c)

C3_Witness ==
  /\ ret.op = "generatePixelPattern"
  /\ Len(source) = 3
  /\ \E k \in 0..24 : ret.val.primary[k]
  /\ \E k \in 0..24 : ~ret.val.primary[k]
  /\ \E k \in 0..24 : ret.val.secondary[k]
  /\ \E k \in 0..24 : ~ret.val.secondary[k]

----------------------------------------------------------------------------
(* C4 *)

\* the stencil as the claim states it: cell (r, c) and its mirror (r, 4-c)
\* carry digest bit first + 3r + c, for c in 0..2
StencilOf(d, first) ==
  [k \in 0..24 |->
     DigestBit(d, first + (k \div 5) * 3
                    + (IF k % 5 > 2 THEN 4 - (k % 5) ELSE k % 5))]

\* the palette index the claim assigns to a pixel of stencil row cy and
\* stencil column cx (-1: outside the stencil)
ExpectedIndex(prim, sec, cx, cy) ==
  IF cx < 0 \/ cy < 0 THEN FillIndex
  ELSE IF prim[cy * 5 + cx] THEN 1
  ELSE IF sec[cy * 5 + cx] THEN 2
  ELSE FillIndex

\* C4: in the image of each of the three renderers a pixel of a cell whose
\* primary flag is set holds index 1 (secondary flag set or not), a pixel of a
\* cell with secondary set and primary clear holds index 2, and every other
\* pixel holds the index of the initial fill.
C4_PrimaryOverSecondary ==
  IsImageOp =>
    LET prim == StencilOf(source, 0)
        sec == StencilOf(source, 15)
        coord == [p \in 0..(ImgSize - 1) |-> CellCoord(p)]
    IN /\ DOMAIN ret.val.Pix = 0..(ImgSize - 1)
       /\ \A y \in 0..(ImgSize - 1) :
            /\ DOMAIN ret.val.Pix[y] = 0..(ImgSize - 1)
            /\ \A x \in 0..(ImgSize - 1) :
                 ret.val.Pix[y][x] = ExpectedIndex(prim, sec, coord[x], coord[y])

\* a rendered image with a cell that has both flags set, painted primary, and
\* a cell with only the secondary flag, painted secondary
C4_Witness ==
  /\ ret.op = "GenerateForExportOptimized"
  /\ ret.arg
  /\ size = 48
  /\ \E k \in 0..24 :
       /\ generatePixelPattern(source).primary[k]
       /\ generatePixelPattern(source).secondary[k]
       /\ ret.val.Pix[9 + 6 * (k \div 5)][9 + 6 * (k % 5)] = 1
  /\ \E k \in 0..24 :
       /\ ~generatePixelPattern(source).primary[k]
       /\ generatePixelPattern(source).secondary[k]
       /\ ret.val.Pix[9 + 6 * (k \div 5)][9 + 6 * (k % 5)] = 2
  /\ ret.val.Pix[0][0] = 3

----------------------------------------------------------------------------
(* C5 *)

Alpha(colour) == colour[4]

OpaqueBackgrounds(table) == {table[1], table[2], table[3]}

\* the variant the claim's selector picks: bits 252, 253 reduced modulo 3 for
\* a digest of 32 bytes or more, the short-digest default otherwise
BackgroundVariant(d) ==
  IF Len(d) < 32 THEN 2
  ELSE ((IF DigestBit(d, 252) THEN 1 ELSE 0)
          + (IF DigestBit(d, 253) THEN 2 ELSE 0)) % 3

\* C5: slot 0 of an exported image's palette has alpha 0 exactly when the
\* transparent flag was set; then every pixel outside a painted cell resolves
\* to an alpha-0 colour; without the flag, and always in GenerateIndexed,
\* slot 0 is the opaque background the background-variant selector picks.
C5_TransparentSlot ==
  IsImageOp =>
    LET img == ret.val
        prim == StencilOf(source, 0)
        sec == StencilOf(source, 15)
        coord == [p \in 0..(ImgSize - 1) |-> CellCoord(p)]
        Painted(x, y) ==
          /\ coord[x] >= 0
          /\ coord[y] >= 0
          /\ (prim[coord[y] * 5 + coord[x]] \/ sec[coord[y] * 5 + coord[x]])
    IN IF ret.op = "GenerateIndexed"
       THEN LET table == IF ret.arg THEN darkBackgrounds ELSE lightBackgrounds
            IN /\ img.Palette[0] = table[BackgroundVariant(source) + 1]
               /\ img.Palette[0] \in OpaqueBackgrounds(table)
               /\ Alpha(img.Palette[0]) = 255
       ELSE /\ (Alpha(img.Palette[0]) = 0) <=> ret.arg
            /\ ret.arg =>
                 /\ img.Palette[0] = <<0, 0, 0, 0>>
                 /\ \A y \in 0..(ImgSize - 1), x \in 0..(ImgSize - 1) :
                      ~Painted(x, y) => Alpha(img.Palette[img.Pix[y][x]]) = 0
            /\ ~ret.arg =>
                 /\ img.Palette[0] = lightBackgrounds[BackgroundVariant(source) + 1]
                 /\ img.Palette[0] \in OpaqueBackgrounds(lightBackgrounds)
                 /\ Alpha(img.Palette[0]) = 255

\* the compact 48x48 export with the transparent flag set
C5_Witness ==
  /\ ret.op = "Generate48x48ForFace"
  /\ ret.arg
  /\ Len(source) = 32
  /\ Alpha(ret.val.Palette[0]) = 0
  /\ Alpha(ret.val.Palette[ret.val.Pix[0][0]]) = 0
  /\ \E y \in 0..47, x \in 0..47 : ret.val.Pix[y][x] = 1

----------------------------------------------------------------------------
(* C6 *)

\* C6: two 32-byte digests that agree on bits 0..29 have the same two grids,
\* and two 32-byte digests that agree on bits 244..255 have the same
\* (primary, secondary, background) indices.
C6_NoAliasing ==
  /\ (ret.op = "generatePixelPattern" /\ Len(source) = 32) =>
       \A d \in Digests32 :
         AgreeOnBits(source, d, 0, 29) => generatePixelPattern(d) = ret.val
  /\ (ret.op = "getColorIndices" /\ Len(source) = 32) =>
       \A d \in Digests32 :
         AgreeOnBits(source, d, 244, 255) => getColorIndices(d) = ret.val

\* a digest with the same pattern bits and different selector bits, and one
\* differing in bits 30..31 only
C6_Witness ==
  /\ ret.op = "generatePixelPattern"
  /\ Len(source) = 32
  /\ \E d \in Digests32 :
       /\ AgreeOnBits(source, d, 0, 29)
       /\ ~AgreeOnBits(source, d, 244, 255)
  /\ \E d \in Digests32 :
       /\ AgreeOnBits(source, d, 0, 29)
       /\ ~AgreeOnBits(source, d, 30, 31)

\* a digest with the same selector bits and different pattern bits
C6_WitnessSelectors ==
  /\ ret.op = "getColorIndices"
  /\ Len(source) = 32
  /\ \E d \in Digests32 :
       /\ AgreeOnBits(source, d, 244, 255)
       /\ ~AgreeOnBits(source, d, 0, 29)
  /\ \E d \in Digests32 :
       /\ AgreeOnBits(source, d, 244, 255)
       /\ ~AgreeOnBits(source, d, 240, 243)

----------------------------------------------------------------------------
(* C7 *)

\* C7: neither accessor raises an error for any integer n; getBit is false
\* for an empty digest, a negative n or n/8 past the end, else bit n%8 of
\* byte n/8; getByte is 0 for an empty digest, else the byte at n mod len,
\* wrapped into 0..len-1.
C7_AccessorsTotal ==
  /\ ret.op = "getBit" =>
       /\ ~ret.val.panic
       /\ ret.val.val = DigestBit(source, ret.arg)
  /\ ret.op = "getByte" =>
       /\ ~ret.val.panic
       /\ ret.val.val = IF Len(source) = 0 THEN 0
                        ELSE source[(ret.arg % Len(source)) + 1]

----------------------------------------------------------------------------
(* C9 *)

\* C9: for every digest and either transparent flag Generate48x48ForFace
\* returns the palette and pixel buffer that GenerateForExportOptimized
\* returns on a generator of size 48, whatever the generator's own size is.
C9_FaceIsExportAt48 ==
  ret.op = "Generate48x48ForFace" =>
    LET g == NewOptimizedIdenticonWithSize(source, 48)
        img == GenerateForExportOptimized(g.source, g.size, ret.arg)
    IN /\ ret.val.Palette = img.Palette
       /\ ret.val.Pix = img.Pix
       /\ ret.val.Rect = img.Rect

C9_Witness ==
  /\ ret.op = "Generate48x48ForFace"
  /\ size = 256
  /\ \E y \in 0..47, x \in 0..47 : ret.val.Pix[y][x] = 1
  /\ \E y \in 0..47, x \in 0..47 : ret.val.Pix[y][x] = 2

----------------------------------------------------------------------------
(* C10 *)

\* the 2-bit value v = bit252 + 2*bit253
TwoBit(d) ==
  (IF DigestBit(d, 252) THEN 1 ELSE 0) + (IF DigestBit(d, 253) THEN 2 ELSE 0)

\* C10 as stated: for a 32-byte digest the background variant is v mod 3, in
\* {0,1,2}, and index 2 is never selected by the top bit (bit 253) alone,
\* only through the wraparound of v.
C10_NeverTwoByTopBit ==
  (ret.op = "getColorIndices" /\ Len(source) = 32) =>
    /\ ret.val.bg = TwoBit(source) % 3
    /\ ret.val.bg \in {0, 1, 2}
    /\ ret.val.bg = 2 => ~(DigestBit(source, 253) /\ ~DigestBit(source, 252))

\* C10 amended: for a 32-byte digest the background variant is v mod 3, in
\* {0,1,2}; index 2 is selected exactly when bit 253 is set and bit 252 is
\* clear (v = 2), and the wraparound maps v = 3 to index 0.
C10_TwoExactlyByTopBit ==
  (ret.op = "getColorIndices" /\ Len(source) = 32) =>
    /\ ret.val.bg = TwoBit(source) % 3
    /\ ret.val.bg \in {0, 1, 2}
    /\ ret.val.bg = 2 <=> (DigestBit(source, 253) /\ ~DigestBit(source, 252))
    /\ TwoBit(source) = 3 => ret.val.bg = 0

C10_Witness ==
  /\ ret.op = "getColorIndices"
  /\ Len(source) = 32
  /\ DigestBit(source, 253)
  /\ ~DigestBit(source, 252)
  /\ ret.val.bg = 2

----------------------------------------------------------------------------
(* C2 *)

\* the continuation lines as the claim lays them out: the characters after
\* the first 70 in groups of 75, each group preceded by a newline and a space
ContinuationText(s) ==
  LET rest == Len(s) - 70
      lines == (rest + 74) \div 75
  IN [j \in 1..(rest + 2 * lines) |->
        LET q == (j - 1) \div 77
            r == (j - 1) % 77
        IN IF r = 0 THEN "\n"
           ELSE IF r = 1 THEN " "
           ELSE s[70 + 75 * q + (r - 1)]]

FaceText(s) ==
  IF Len(s) <= 72
  THEN FaceTag \o <<" ">> \o s \o <<"\n">>
  ELSE FaceTag \o <<" ">> \o SubSeq(s, 1, 70) \o ContinuationText(s) \o <<"\n">>

\* C2: when every write succeeds the file is `Face:`, a space, then the
\* whole stream if it has at most 72 characters, else its first 70
\* characters and continuation lines of a newline, one space and the next up
\* to 75 characters; it ends with exactly one newline.
C2_FaceLayout ==
  (pc = "returned" /\ err = "nil") =>
    /\ file = FaceText(b64)
    /\ file[Len(file)] = "\n"
    /\ file[Len(file) - 1] # "\n"

\* a stream wrapped over three continuation lines, the last one short
C2_Witness ==
  /\ pc = "returned"
  /\ err = "nil"
  /\ Len(b64) = 223
  /\ Len(file) = 5 + 1 + 223 + 2 * 3 + 1

\* a 72-character stream on the single opening line
C2_WitnessSingleLine ==
  /\ pc = "returned"
  /\ err = "nil"
  /\ Len(b64) = 72
  /\ Len(file) = 5 + 1 + 72 + 1

----------------------------------------------------------------------------
(* C8 *)

\* C8: after a failed write writeFaceFile returns the error, writes nothing
\* more, and the content written so far does not end with the trailing
\* newline of a complete header.
C8_FailureLeavesNoNewline ==
  (pc = "returned" /\ err # "nil") =>
    (Len(file) = 0 \/ file[Len(file)] # "\n")

\* the part of C8 that holds: once writeFaceFile has returned, an error or
\* not, the file is not written again
C8_NoWriteAfterReturn == [][pc = "returned" => file' = file]_vars

----------------------------------------------------------------------------
(* C11 *)

\* position j of a header starts a line: it follows the tag or a newline
LineStart(f, j) == j = Len(FaceTag) + 1 \/ f[j - 1] = "\n"

\* a header with its tag, the first character of each line and every
\* newline removed
\* (positions lo..hi are split in halves, so the nesting stays logarithmic)
Unframe(f) ==
  LET RECURSIVE Strip(_, _)
      Strip(lo, hi) ==
        IF lo > hi THEN <<>>
        ELSE IF lo = hi
          THEN IF f[lo] = "\n" \/ LineStart(f, lo) THEN <<>> ELSE <<f[lo]>>
          ELSE LET mid == (lo + hi) \div 2
               IN Strip(lo, mid) \o Strip(mid + 1, hi)
  IN Strip(Len(FaceTag) + 1, Len(f))

\* the header starts with the tag, each of its lines starts with one space,
\* and every line after the first holds at least one more character
WellFramed(f) ==
  /\ Len(f) > Len(FaceTag)
  /\ SubSeq(f, 1, Len(FaceTag)) = FaceTag
  /\ \A j \in (Len(FaceTag) + 1)..Len(f) :
       /\ LineStart(f, j) => f[j] = " "
       /\ (j > Len(FaceTag) + 1 /\ LineStart(f, j)) =>
            (j + 1 <= Len(f) /\ f[j + 1] # "\n")

\* C11: for every stream s, with all writes succeeding, removing the tag, the
\* space that starts each line and every newline from the file gives
\* back exactly s; no continuation line is empty; and the call returns.
C11_FramingLossless ==
  /\ [](  (pc = "returned" /\ err = "nil") =>
            (WellFramed(file) /\ Unframe(file) = b64))
  /\ [](pc = "loop" => (70 <= pos /\ pos <= Len(b64)))
  /\ <>(pc = "returned")

\* a stream of 70 + 2*75 characters: the last continuation line is full
C11_Witness ==
  /\ pc = "returned"
  /\ err = "nil"
  /\ Len(b64) = 220
  /\ Len(file) = 5 + 1 + 220 + 2 * 2 + 1
  /\ Unframe(file) = b64

\* the stream of 73 characters, the shortest one that is wrapped
C11_WitnessShortestWrapped ==
  /\ pc = "returned"
  /\ err = "nil"
  /\ Len(b64) = 73
  /\ Unframe(file) = b64

====
